---- MODULE Spec2Model ----
(***************************************************************************)
(* Model of the subset-sum search engine of sum3 (src/src/lib.rs):         *)
(* find_combinations with its process-wide result cache, the recursive     *)
(* parallel fan-out of optimized_backtrack over the sorted input, the      *)
(* shared Result Set behind its mutex and the cancellation flag.           *)
(*                                                                         *)
(* Numbers (f64 in the source) are integers counting thousandths: 5000 is  *)
(* 5.0 and 4 is 0.004.  Sums of the modelled inputs are exact in both.     *)
(* Indices are 1-based here and 0-based in the source.                     *)
(***************************************************************************)
EXTENDS Integers, Sequences, FiniteSets, Bags, TLC

VARIABLES
    cache,           \* CACHE: the LruCache entries, most recently used first
    pc,              \* position of the caller: "idle", "searching", "done"
    call,            \* arguments of the current / last find_combinations call
    stop_flag,       \* the caller's Arc<AtomicBool>
    sorted_numbers,  \* sorted_numbers of the running search
    results,         \* the shared Result Set, Arc<Mutex<Vec<Vec<f64>>>>
    tasks,           \* the live branches of optimized_backtrack
    ret,             \* the value the last call returned
    hit,             \* whether the last call was answered from the cache
    ncalls,          \* number of calls made so far
    puts,            \* history: the CACHE.put calls made so far, in order
    progress_rx,     \* the values sent on progress_tx, as its receiver sees them
    results_lock,    \* the branches that hold the mutex of the Result Set
    used,            \* history: the cache keys and their last put value, by last use
    gui              \* Sum3App, its shared_state and the searches it has launched

vars == <<cache, pc, call, stop_flag, sorted_numbers, results, tasks, ret, hit, ncalls, puts,
          progress_rx, results_lock, used, gui>>

----------------------------------------------------------------------------
(* Bounds of the model and scaled program constants *)

\* number of find_combinations calls made one after the other in the process
MaxCalls == 2

\* let max_results = 1000 (lib.rs:57), scaled down so that the inputs below
\* hold more accepted Paths than the cap
max_results == 3

\* CombinationCache::new(1_000_000) (lib.rs:43), scaled down; it still holds
\* every key the inputs below can produce, as the real capacity does
CACHE_CAPACITY == 2

\* f64::NAN: a value that compares with nothing, kept apart from every number
NaN == 999999

\* the numbers collections a caller passes (unsorted as passed)
NumberLists == { <<>>, <<5004, 5000>>, <<0, 5000, 0>>, <<NaN, 5000>> }

Targets == {0, 5000, 5004}

Tolerances == {0, 4}

MaxLengths == {0, 5}

----------------------------------------------------------------------------
(* Pure helpers *)

Abs(x) == IF x < 0 THEN -x ELSE x

RECURSIVE SumSeq(_)
\* path.iter().sum::<f64>()
SumSeq(s) == IF s = <<>> THEN 0 ELSE Head(s) + SumSeq(Tail(s))

RECURSIVE Insert(_, _)
\* insertion of x after every element that is not greater (a stable sort step)
Insert(x, s) ==
    IF s = <<>> THEN <<x>>
    ELSE IF x < Head(s) THEN <<x>> \o s
    ELSE <<Head(s)>> \o Insert(x, Tail(s))

\* a.partial_cmp(b).unwrap() panics when the sort compares a NaN, which it does
\* as soon as there are two elements
SortPanics(s) == Len(s) >= 2 /\ \E j \in DOMAIN s : s[j] = NaN

RECURSIVE SortAsc(_)
\* sorted_numbers.sort_by(|a, b| a.partial_cmp(b).unwrap())
SortAsc(s) ==
    IF s = <<>> THEN <<>>
    ELSE Insert(s[Len(s)], SortAsc(SubSeq(s, 1, Len(s) - 1)))

\* format!("{:.2}", x): sign and magnitude rounded to hundredths.  A negative
\* value keeps its sign even when it rounds to zero ("-0.00").
Fmt2(x) == <<x < 0, (Abs(x) + 5) \div 10>>

\* a key built from the values as given, with no rounding
CacheKeyUnrounded(target, tolerance) == <<target, tolerance>>

\* format!("{:.2}_{:.2}", target, tolerance)
CacheKey(target, tolerance) == <<Fmt2(target), Fmt2(tolerance)>>

----------------------------------------------------------------------------
(* CombinationCache over lru::LruCache *)

None == [some |-> FALSE]

Some(v) == [some |-> TRUE, val |-> v]

CacheIndex(c, k) ==
    IF \E j \in 1..Len(c) : c[j].key = k
    THEN CHOOSE j \in 1..Len(c) : c[j].key = k
    ELSE 0

Without(c, j) == SubSeq(c, 1, j - 1) \o SubSeq(c, j + 1, Len(c))

\* the Option returned by CombinationCache::get
CacheGet(c, target, tolerance) ==
    LET j == CacheIndex(c, CacheKey(target, tolerance))
    IN IF j = 0 THEN None ELSE Some(c[j].value)

\* a get that leaves the order of the entries as it is
CacheAfterGetNoPromote(c, target, tolerance) == c

\* the cache after CombinationCache::get: a hit makes the entry most recent
CacheAfterGet(c, target, tolerance) ==
    LET j == CacheIndex(c, CacheKey(target, tolerance))
    IN IF j = 0 THEN c ELSE <<c[j]>> \o Without(c, j)

\* the cache after CombinationCache::put
CachePut(c, target, tolerance, value) ==
    LET k == CacheKey(target, tolerance)
        j == CacheIndex(c, k)
        e == [key |-> k, value |-> value]
    IN IF j # 0 THEN <<e>> \o Without(c, j)
       ELSE IF Len(c) >= CACHE_CAPACITY THEN <<e>> \o SubSeq(c, 1, Len(c) - 1)
       ELSE <<e>> \o c

----------------------------------------------------------------------------
(* optimized_backtrack *)

\* the acceptance test without its !path.is_empty() conjunct
AcceptsEmptyToo(path, target, tolerance) ==
    Abs(SumSeq(path) - target) <= tolerance

\* diff <= tolerance && !path.is_empty()
Accepts(path, target, tolerance) ==
    Abs(SumSeq(path) - target) <= tolerance /\ path # <<>>

\* results.lock().unwrap().len() < max_results
BelowCap(res) == Len(res) < max_results

\* a cap test that fires before the cap is reached
CapReachedEarly(res) == Len(res) >= max_results - 2

\* results.lock().unwrap().len() >= max_results
CapReached(res) == Len(res) >= max_results

\* a branch: ix is its position in the call tree (the indices taken so far),
\* path and start are the arguments of optimized_backtrack, i is the index of
\* a for_each iteration that has not yet entered optimized_backtrack
Node(ix, path, start) == [ix |-> ix, path |-> path, start |-> start, i |-> 0, pc |-> "entry"]

\* a fan-out that skips index i when even the smallest remaining candidate
\* overshoots: path + nums[i] + nums[i+1] > target + tolerance
IterTasksPruned(t) ==
    { [ix |-> t.ix, path |-> t.path, start |-> t.start, i |-> i, pc |-> "iter"] :
        i \in { j \in t.start..Len(sorted_numbers) :
                  ~ ( /\ j < Len(sorted_numbers)
                      /\ SumSeq(t.path) + sorted_numbers[j] + sorted_numbers[j + 1]
                           > call.target + call.tolerance ) } }

\* one iteration of (start..nums.len()).into_par_iter().for_each
IterTasks(t) ==
    { [ix |-> t.ix, path |-> t.path, start |-> t.start, i |-> i, pc |-> "iter"] :
        i \in t.start..Len(sorted_numbers) }

\* a recursion that passes i instead of i + 1
ChildOfSameStart(t) ==
    Node(Append(t.ix, t.i), Append(t.path, sorted_numbers[t.i]), t.i)

\* local_path.push(nums[i]); optimized_backtrack(.., i + 1, &mut local_path, ..)
ChildOf(t) ==
    Node(Append(t.ix, t.i), Append(t.path, sorted_numbers[t.i]), t.i + 1)

\* Sum3App::default() with its shared_state (results, status, computing), and
\* no search launched yet.  cancel_sender is the search whose cancel channel
\* the app holds (0 for None); searches is the history of launched searches;
\* stopped records that stop_computation ran and start_computation has not
\* run since.
Sum3AppDefault ==
    [ computing |-> FALSE, status |-> <<"ready">>, results |-> <<>>,
      cancel_sender |-> 0,
      shared_state |-> [results |-> <<>>, status |-> <<"ready">>, computing |-> FALSE],
      searches |-> <<>>, stopped |-> FALSE ]

Init ==
    /\ cache = <<>>
    /\ pc = "idle"
    /\ call = [numbers |-> <<>>, target |-> 0, tolerance |-> 0, max_length |-> 0,
               stop_at_call |-> FALSE, progress_tx |-> FALSE]
    /\ stop_flag = FALSE
    /\ sorted_numbers = <<>>
    /\ results = <<>>
    /\ tasks = {}
    /\ ret = <<>>
    /\ hit = FALSE
    /\ ncalls = 0
    /\ puts = <<>>
    /\ progress_rx = <<>>
    /\ results_lock = {}
    /\ used = <<>>
    /\ gui = Sum3AppDefault

\* the history of uses after a get: a successful get is a use of its key
UsedAfterGet(u, c, target, tolerance) ==
    LET k == CacheKey(target, tolerance)
        J == { j \in DOMAIN u : u[j].key = k }
    IN IF CacheGet(c, target, tolerance).some /\ J # {}
       THEN LET j == CHOOSE x \in J : TRUE
            IN <<u[j]>> \o SubSeq(u, 1, j - 1) \o SubSeq(u, j + 1, Len(u))
       ELSE u

\* the history of uses after a put: a put is a use of its key
UsedAfterPut(u, target, tolerance, value) ==
    LET k == CacheKey(target, tolerance)
    IN <<[key |-> k, value |-> value]>> \o SelectSeq(u, LAMBDA e : e.key # k)

\* find_combinations up to the root call of optimized_backtrack; progress_tx is
\* whether the caller passes Some(sender)
Call(numbers, target, tolerance, progress_tx, max_length, stop) ==
    /\ pc \in {"idle", "done"}
    /\ ncalls < MaxCalls
    /\ ncalls' = ncalls + 1
    /\ call' = [numbers |-> numbers, target |-> target, tolerance |-> tolerance,
                max_length |-> max_length, stop_at_call |-> stop,
                progress_tx |-> progress_tx]
    /\ stop_flag' = stop
    /\ cache' = CacheAfterGet(cache, target, tolerance)
    /\ used' = UsedAfterGet(used, cache, target, tolerance)
    /\ UNCHANGED <<puts, progress_rx, results_lock, gui>>
    /\ IF CacheGet(cache, target, tolerance).some
       THEN /\ ret' = CacheGet(cache, target, tolerance).val
            /\ hit' = TRUE
            /\ pc' = "done"
            /\ UNCHANGED <<sorted_numbers, results, tasks>>
       ELSE IF SortPanics(numbers)
       THEN /\ hit' = FALSE
            /\ pc' = "panicked"
            /\ UNCHANGED <<sorted_numbers, results, tasks, ret>>
       ELSE /\ hit' = FALSE
            /\ pc' = "searching"
            /\ sorted_numbers' = SortAsc(numbers)
            /\ results' = <<>>
            /\ tasks' = {Node(<<>>, <<>>, 1)}
            /\ UNCHANGED ret

\* the external actor sets the cancellation signal during a search
Cancel ==
    /\ pc = "searching"
    /\ ~stop_flag
    /\ stop_flag' = TRUE
    /\ UNCHANGED <<cache, pc, call, sorted_numbers, results, tasks, ret, hit, ncalls, puts,
                 progress_rx, results_lock, used, gui>>

\* entry of optimized_backtrack: the stop check and the acceptance test
Entry(t) ==
    /\ pc = "searching"
    /\ t.pc = "entry"
    /\ tasks' = IF stop_flag THEN tasks \ {t}
                ELSE IF Accepts(t.path, call.target, call.tolerance)
                     THEN (tasks \ {t}) \cup {[t EXCEPT !.pc = "lencheck"]}
                     ELSE (tasks \ {t}) \cup {[t EXCEPT !.pc = "capcheck"]}
    /\ UNCHANGED <<cache, pc, call, stop_flag, sorted_numbers, results, ret, hit, ncalls, puts,
                 progress_rx, results_lock, used, gui>>

\* if results.lock().unwrap().len() < max_results: the guard is taken and
\* dropped within the condition
LenCheck(t) ==
    /\ pc = "searching"
    /\ t.pc = "lencheck"
    /\ results_lock = {}
    /\ tasks' = IF BelowCap(results)
                THEN (tasks \ {t}) \cup {[t EXCEPT !.pc = "push"]}
                ELSE tasks \ {t}
    /\ UNCHANGED <<cache, pc, call, stop_flag, sorted_numbers, results, ret, hit, ncalls, puts,
                 progress_rx, results_lock, used, gui>>

\* a push that inserts at the front of the Result Set
PushFront(t) ==
    /\ pc = "searching"
    /\ t.pc = "push"
    /\ results_lock = {}
    /\ results' = <<t.path>> \o results
    /\ tasks' = tasks \ {t}
    /\ UNCHANGED <<cache, pc, call, stop_flag, sorted_numbers, ret, hit, ncalls, puts,
                 progress_rx, results_lock, used, gui>>

\* results.lock().unwrap().push(path.clone()); return
Push(t) ==
    /\ pc = "searching"
    /\ t.pc = "push"
    /\ results_lock = {}
    /\ results' = Append(results, t.path)
    /\ tasks' = tasks \ {t}
    /\ UNCHANGED <<cache, pc, call, stop_flag, sorted_numbers, ret, hit, ncalls, puts,
                 progress_rx, results_lock, used, gui>>

\* results.lock().unwrap().len() >= max_results || : the guard lives to the
\* end of the whole condition, so it is still held when the right operand runs
CapCheck(t) ==
    /\ pc = "searching"
    /\ t.pc = "capcheck"
    /\ results_lock = {}
    /\ IF CapReached(results)
       THEN /\ tasks' = tasks \ {t}
            /\ results_lock' = {}
       ELSE /\ tasks' = (tasks \ {t}) \cup {[t EXCEPT !.pc = "stopcheck"]}
            /\ results_lock' = {[t EXCEPT !.pc = "stopcheck"]}
    /\ UNCHANGED <<cache, pc, call, stop_flag, sorted_numbers, results, ret, hit, ncalls, puts,
                 progress_rx, used, gui>>

\* a fan-out entered with the guard of the condition still alive
StopCheckHoldingLock(t) ==
    /\ pc = "searching"
    /\ t.pc = "stopcheck"
    /\ tasks' = IF stop_flag THEN tasks \ {t}
                ELSE (tasks \ {t}) \cup IterTasks(t)
    /\ results_lock' = IF stop_flag THEN results_lock \ {t} ELSE results_lock
    /\ UNCHANGED <<cache, pc, call, stop_flag, sorted_numbers, results, ret, hit, ncalls, puts,
                 progress_rx, used, gui>>

\* .. stop_flag.load(Ordering::Relaxed): the condition ends, the guard is
\* dropped, then the parallel fan-out
StopCheck(t) ==
    /\ pc = "searching"
    /\ t.pc = "stopcheck"
    /\ tasks' = IF stop_flag THEN tasks \ {t}
                ELSE (tasks \ {t}) \cup IterTasks(t)
    /\ results_lock' = results_lock \ {t}
    /\ UNCHANGED <<cache, pc, call, stop_flag, sorted_numbers, results, ret, hit, ncalls, puts,
                 progress_rx, used, gui>>

\* the body of the for_each closure
Iter(t) ==
    /\ pc = "searching"
    /\ t.pc = "iter"
    /\ tasks' = IF stop_flag THEN tasks \ {t}
                ELSE (tasks \ {t}) \cup {ChildOf(t)}
    /\ UNCHANGED <<cache, pc, call, stop_flag, sorted_numbers, results, ret, hit, ncalls, puts,
                 progress_rx, results_lock, used, gui>>

\* the root call has returned: results.lock() for local_results, CACHE.put and
\* the return of final_results
Return ==
    /\ pc = "searching"
    /\ tasks = {}
    /\ results_lock = {}
    /\ cache' = CachePut(cache, call.target, call.tolerance, results)
    /\ used' = UsedAfterPut(used, call.target, call.tolerance, results)
    /\ ret' = results
    /\ pc' = "done"
    /\ puts' = Append(puts, [target |-> call.target, tolerance |-> call.tolerance,
                              value |-> results])
    /\ UNCHANGED <<call, stop_flag, sorted_numbers, results, tasks, hit, ncalls,
                 progress_rx, results_lock, gui>>

\* the engine called with progress_tx = None
Next ==
    \/ \E numbers \in NumberLists, target \in Targets, tolerance \in Tolerances,
          max_length \in MaxLengths, stop \in BOOLEAN :
            Call(numbers, target, tolerance, FALSE, max_length, stop)
    \/ Cancel
    \/ \E t \in tasks : Entry(t)
    \/ \E t \in tasks : LenCheck(t)
    \/ \E t \in tasks : Push(t)
    \/ \E t \in tasks : CapCheck(t)
    \/ \E t \in tasks : StopCheck(t)
    \/ \E t \in tasks : Iter(t)
    \/ Return

Spec == Init /\ [][Next]_vars

\* the engine called with progress_tx = Some(sender) as well
NextSink ==
    \/ \E numbers \in NumberLists, target \in Targets, tolerance \in Tolerances,
          max_length \in MaxLengths, stop \in BOOLEAN :
            Call(numbers, target, tolerance, TRUE, max_length, stop)
    \/ Next

SpecSink == Init /\ [][NextSink]_vars

\* a step of some live branch
BranchStep ==
    \E t \in tasks :
        Entry(t) \/ LenCheck(t) \/ Push(t) \/ CapCheck(t) \/ StopCheck(t) \/ Iter(t)

\* the worker pool keeps running a branch that can run, and the caller's
\* thread goes on once the root call has returned
FairSpec == Spec /\ WF_vars(BranchStep) /\ WF_vars(Return)

----------------------------------------------------------------------------
(* CombinationCache on its own: any sequence of get and put *)

\* targets of the cache operations: three distinct keys for a capacity of two
CacheTargets == Targets \cup {7000}

\* the Vec<Vec<f64>> values stored by the cache operations
CacheValues == { <<>>, << <<5000>> >>, << <<0>>, <<0>> >> }

\* CombinationCache::get; hit and ret hold the Option it returns
get(target, tolerance) ==
    /\ pc = "idle"
    /\ hit' = CacheGet(cache, target, tolerance).some
    /\ ret' = IF CacheGet(cache, target, tolerance).some
              THEN CacheGet(cache, target, tolerance).val
              ELSE <<>>
    /\ cache' = CacheAfterGet(cache, target, tolerance)
    /\ used' = UsedAfterGet(used, cache, target, tolerance)
    /\ UNCHANGED <<pc, call, stop_flag, sorted_numbers, results, tasks, ncalls, puts,
                 progress_rx, results_lock, gui>>

\* CombinationCache::put
put(target, tolerance, value) ==
    /\ pc = "idle"
    /\ cache' = CachePut(cache, target, tolerance, value)
    /\ used' = UsedAfterPut(used, target, tolerance, value)
    /\ UNCHANGED <<pc, call, stop_flag, sorted_numbers, results, tasks, ret, hit, ncalls,
                 puts, progress_rx, results_lock, gui>>

NextCache ==
    \/ \E target \in CacheTargets, tolerance \in Tolerances : get(target, tolerance)
    \/ \E target \in CacheTargets, tolerance \in Tolerances, value \in CacheValues :
          put(target, tolerance, value)

SpecCache == Init /\ [][NextCache]_vars

----------------------------------------------------------------------------
(* Sum3App: the frame handler and the threads of start_computation *)

\* searches launched in one run of the app
MaxSearches == 2

\* what a search launched by the app can return
GuiResults == { <<>>, << <<5000>> >> }

\* the block at the top of update(): the app's fields are overwritten with the
\* shared state
SyncShared(app) ==
    [app EXCEPT !.results = app.shared_state.results,
                !.status = app.shared_state.status,
                !.computing = app.shared_state.computing]

\* a search as spawned by start_computation; stop_flag is the cancellation
\* signal that its find_combinations reads
Launched ==
    [ state |-> "running", result |-> <<>>, cancel_sent |-> FALSE, unparked |-> FALSE,
      stop_flag |-> FALSE, stopped |-> FALSE, applied_after_stop |-> FALSE ]

\* fn start_computation with parsable fields and numbers imported
start_computation(app) ==
    [app EXCEPT !.computing = TRUE,
                !.results = <<>>,
                !.status = <<"computing">>,
                !.cancel_sender = Len(app.searches) + 1,
                !.searches = Append(app.searches, Launched),
                !.stopped = FALSE]

\* fn stop_computation
stop_computation(app) ==
    IF app.cancel_sender # 0
    THEN [app EXCEPT !.cancel_sender = 0,
                     !.searches[app.cancel_sender].cancel_sent = TRUE,
                     !.searches[app.cancel_sender].stopped = TRUE,
                     !.computing = FALSE,
                     !.status = <<"stopped">>,
                     !.stopped = TRUE]
    ELSE app

\* the two buttons of update(), in the order of the code; a button reports
\* clicked() for a pointer click and for Enter or Space while it has the
\* keyboard focus, so both can be clicked in one frame
Buttons(app, click_start, click_stop) ==
    LET a == IF click_start /\ ~app.computing THEN start_computation(app) ELSE app
    IN IF click_stop /\ a.computing THEN stop_computation(a) ELSE a

\* one frame: eframe::App::update
Update(click_start, click_stop) ==
    /\ click_start /\ ~gui.shared_state.computing => Len(gui.searches) < MaxSearches
    /\ gui' = Buttons(SyncShared(gui), click_start, click_stop)
    /\ UNCHANGED <<cache, pc, call, stop_flag, sorted_numbers, results, tasks, ret, hit,
                 ncalls, puts, progress_rx, results_lock, used>>

\* the cancel listener thread: cancel_rx.recv() then unpark of the thread that
\* spawned the workers
CancelListener(k) ==
    /\ gui.searches[k].cancel_sent
    /\ ~gui.searches[k].unparked
    /\ gui' = [gui EXCEPT !.searches[k].unparked = TRUE]
    /\ UNCHANGED <<cache, pc, call, stop_flag, sorted_numbers, results, tasks, ret, hit,
                 ncalls, puts, progress_rx, results_lock, used>>

\* the computing thread: find_combinations returns and the result is passed on
\* as ComputationMessage::Results
SearchReturns(k, res) ==
    /\ gui.searches[k].state = "running"
    /\ gui' = [gui EXCEPT !.searches[k].state = "returned",
                          !.searches[k].result = res]
    /\ UNCHANGED <<cache, pc, call, stop_flag, sorted_numbers, results, tasks, ret, hit,
                 ncalls, puts, progress_rx, results_lock, used>>

\* the message thread: the Results arm of the match
ApplyResults(k) ==
    /\ gui.searches[k].state = "returned"
    /\ gui' = [gui EXCEPT
                 !.searches[k].state = "applied",
                 !.searches[k].applied_after_stop = gui.searches[k].stopped,
                 !.shared_state = [results |-> gui.searches[k].result,
                                   status |-> <<"found", Len(gui.searches[k].result)>>,
                                   computing |-> FALSE]]
    /\ UNCHANGED <<cache, pc, call, stop_flag, sorted_numbers, results, tasks, ret, hit,
                 ncalls, puts, progress_rx, results_lock, used>>

NextGui ==
    \/ \E click_start, click_stop \in BOOLEAN : Update(click_start, click_stop)
    \/ \E k \in DOMAIN gui.searches : CancelListener(k)
    \/ \E k \in DOMAIN gui.searches, res \in GuiResults : SearchReturns(k, res)
    \/ \E k \in DOMAIN gui.searches : ApplyResults(k)

SpecGui == Init /\ [][NextGui]_vars

----------------------------------------------------------------------------
(* Vocabulary of the properties *)

Range(s) == { s[j] : j \in DOMAIN s }

\* the multiset of the Paths of a Result Set
BagOfSeq(s) == [x \in Range(s) |-> Cardinality({ j \in DOMAIN s : s[j] = x })]

RECURSIVE IsSubseq(_, _)
\* p is s restricted to some strictly increasing indices
IsSubseq(p, s) ==
    IF p = <<>> THEN TRUE
    ELSE IF s = <<>> THEN FALSE
    ELSE \/ Head(p) = Head(s) /\ IsSubseq(Tail(p), Tail(s))
         \/ IsSubseq(p, Tail(s))

Min(S) == CHOOSE x \in S : \A y \in S : x <= y

Max(S) == CHOOSE x \in S : \A y \in S : y <= x

RECURSIVE PathOf(_, _)
\* the elements of nums at the indices S, in increasing index order
PathOf(nums, S) ==
    IF S = {} THEN <<>>
    ELSE <<nums[Min(S)]>> \o PathOf(nums, S \ {Min(S)})

\* the test of the claims: |sum(p) - target| <= tolerance
WithinTolerance(p, target, tolerance) ==
    /\ SumSeq(p) - target <= tolerance
    /\ target - SumSeq(p) <= tolerance

\* x and y print the same with two decimals: same sign, same nearest hundredth
SameTwoDecimals(x, y) ==
    /\ (x < 0) = (y < 0)
    /\ \E n \in { Abs(x) \div 10, Abs(x) \div 10 + 1 } :
        /\ 10 * n - 5 <= Abs(x) /\ Abs(x) < 10 * n + 5
        /\ 10 * n - 5 <= Abs(y) /\ Abs(y) < 10 * n + 5

\* the puts whose (target, tolerance) rounds as (t, tol) does
PutsFor(t, tol) ==
    { j \in DOMAIN puts : /\ SameTwoDecimals(puts[j].target, t)
                          /\ SameTwoDecimals(puts[j].tolerance, tol) }

\* the search as one thread runs it with no cap and no cancellation: the
\* accepted Paths below (path, start), in depth-first order
RECURSIVE SequentialSearch(_, _, _, _, _, _)
SequentialSearch(nums, target, tolerance, path, start, i) ==
    IF i = 0
    THEN IF WithinTolerance(path, target, tolerance) /\ path # <<>>
         THEN <<path>>
         ELSE SequentialSearch(nums, target, tolerance, path, start, start)
    ELSE IF i > Len(nums) THEN <<>>
    ELSE SequentialSearch(nums, target, tolerance, Append(path, nums[i]), i + 1, 0)
         \o SequentialSearch(nums, target, tolerance, path, start, i + 1)

Returned == pc = "done"

\* the last call ran its own search to the end, was never cancelled and the
\* Result Set stayed below the cap
RanUncapped == Returned /\ ~hit /\ ~stop_flag /\ Len(ret) < max_results

----------------------------------------------------------------------------
(* The claims *)

C2_CapBound ==
    /\ Len(results) <= max_results
    /\ Returned => Len(ret) <= max_results

\* C3: every returned Path has length <= max_length, and no branch extends a
\* Path that has reached max_length.
C3_LengthBound ==
    /\ Returned => \A j \in DOMAIN ret : Len(ret[j]) <= call.max_length
    /\ pc = "searching" => \A t \in tasks : Len(t.path) <= call.max_length

\* C4: a call with an empty numbers collection returns an empty Result Set,
\* after any sequence of earlier searches.
C4_EmptyInput ==
    Returned /\ call.numbers = <<>> => ret = <<>>

\* C5: every returned Path is the call's sorted input taken at strictly
\* increasing indices.
C5_SubsetInvariant ==
    Returned => \A j \in DOMAIN ret : IsSubseq(ret[j], SortAsc(call.numbers))

\* C6: a first search that is never cancelled and stays below the cap returns
\* every non-empty index-increasing subset of the sorted input of length
\* <= max_length whose sum is within tolerance of target.
C6_MembershipCompleteness ==
    RanUncapped /\ ncalls = 1 =>
        \A S \in SUBSET (1..Len(SortAsc(call.numbers))) :
            LET p == PathOf(SortAsc(call.numbers), S)
            IN  /\ S # {}
                /\ Cardinality(S) <= call.max_length
                /\ WithinTolerance(p, call.target, call.tolerance)
                => p \in Range(ret)

\* C7: the empty Path is never in the shared Result Set, in a returned Result
\* Set or in a cached one.
C7_NonEmptiness ==
    /\ <<>> \notin Range(results)
    /\ <<>> \notin Range(ret)
    /\ \A e \in DOMAIN cache : <<>> \notin Range(cache[e].value)

\* C7 witness: a search whose target is within tolerance of the empty sum has
\* returned accepted Paths
C7_Witness ==
    /\ Returned /\ ~hit
    /\ WithinTolerance(<<>>, call.target, call.tolerance)
    /\ ret # <<>>
    /\ cache # <<>>

\* C8: a search that runs to its end uncancelled and below the cap returns,
\* under every schedule of its branches, the multiset of Paths that the inputs
\* alone determine; only the order may differ.
C8_MembershipDeterminism ==
    RanUncapped =>
        BagOfSeq(ret) =
            BagOfSeq(SequentialSearch(SortAsc(call.numbers), call.target,
                                      call.tolerance, <<>>, 1, 0))

\* C8 witness: two different Paths returned in an order that is not the
\* depth-first one
C8_Witness ==
    /\ RanUncapped
    /\ Len(ret) = 2 /\ ret[1] # ret[2]
    /\ ret # SequentialSearch(SortAsc(call.numbers), call.target,
                              call.tolerance, <<>>, 1, 0)

\* C9: while no entry has been evicted, a get for (t, tol) returns the value of
\* the last put whose (target, tolerance) rounds to the same two decimals, the
\* same Paths in the same order, and None when there was no such put.
C9_CacheRoundTrip ==
    Cardinality({ CacheKey(puts[j].target, puts[j].tolerance) : j \in DOMAIN puts })
        <= CACHE_CAPACITY
    => \A t \in Targets, tol \in Tolerances :
        CacheGet(cache, t, tol) =
            IF PutsFor(t, tol) = {} THEN None
            ELSE Some(puts[Max(PutsFor(t, tol))].value)

\* C9 witness: a call answered from the cache with the Result Set put under
\* another target that rounds to the same two decimals
C9_Witness ==
    /\ Returned /\ hit
    /\ PutsFor(call.target, call.tolerance) # {}
    /\ LET p == puts[Max(PutsFor(call.target, call.tolerance))]
       IN  /\ p.target # call.target
           /\ p.value # <<>>
           /\ ret = p.value

\* C10: a call made with the cancellation signal already set returns an empty
\* Result Set, after any sequence of earlier searches.
C10_CancelledBeforeStart ==
    Returned /\ call.stop_at_call => ret = <<>>

\* C11: a call made with a progress sink has sent at least one value to it by
\* the time it returns.
C11_ProgressDelivered ==
    Returned /\ call.progress_tx => Len(progress_rx) >= 1

\* the indices of a branch increase strictly and start follows the last one
StartIncreases(t) ==
    /\ \A j \in 1..(Len(t.ix) - 1) : t.ix[j] < t.ix[j + 1]
    /\ \A j \in DOMAIN t.ix : t.ix[j] \in 1..Len(sorted_numbers)
    /\ t.pc = "iter" => t.i >= t.start
    /\ t.start = IF t.ix = <<>> THEN 1 ELSE t.ix[Len(t.ix)] + 1

\* C12: whatever the timing of the cancellation signal, a search eventually
\* returns under fair scheduling; every recursion increases start, so no branch
\* is deeper than len(numbers).
C12_Termination ==
    /\ [](pc = "searching" =>
            \A t \in tasks : StartIncreases(t) /\ Len(t.ix) <= Len(sorted_numbers))
    /\ (pc = "searching") ~> (pc = "done")

\* C12 witness: a search cancelled while it ran has returned what it had
C12_Witness ==
    /\ Returned /\ ~hit
    /\ stop_flag /\ ~call.stop_at_call
    /\ ret # <<>>
    /\ Len(sorted_numbers) = 3

IsPrefix(p, s) == Len(p) <= Len(s) /\ SubSeq(s, 1, Len(p)) = p

\* C13: at most one branch holds the Result Set mutex; a branch about to lock
\* it does not hold it; the holder has not fanned out or recursed; no lock is
\* held when the caller's thread uses the cache; and some branch can always run.
C13_LockDiscipline ==
    /\ Cardinality(results_lock) <= 1
    /\ results_lock \subseteq tasks
    /\ \A h \in results_lock :
        /\ h.pc = "stopcheck"
        /\ \A t \in tasks : t # h => ~IsPrefix(h.ix, t.ix)
    /\ pc # "searching" => results_lock = {}
    /\ pc = "searching" /\ tasks # {} =>
        \/ results_lock = {}
        \/ \E t \in tasks : t.pc \in {"entry", "iter", "stopcheck"}

\* C13 witness: one branch holds the mutex while another waits to lock it
C13_Witness ==
    /\ results_lock # {}
    /\ \E t \in tasks : t.pc \in {"lencheck", "push", "capcheck"}

\* branch i below a node with Path parent overshoots even with the smallest
\* remaining candidate
LowerBoundViolated(parent, i) ==
    /\ i < Len(sorted_numbers)
    /\ SumSeq(parent) + sorted_numbers[i] + sorted_numbers[i + 1]
         > call.target + call.tolerance

\* C14: no branch i is recursed into when running_sum + numbers[i] +
\* smallest_remaining_candidate > target + tolerance.
C14_LowerBoundPruning ==
    pc = "searching" =>
        \A t \in tasks :
            t.pc # "iter" /\ t.ix # <<>> =>
                ~LowerBoundViolated(SubSeq(t.path, 1, Len(t.path) - 1), t.ix[Len(t.ix)])

\* C14 amended: there is no sum-based pruning. A node that passes its stop test
\* makes an iteration for every index from start to the end, and an iteration
\* that sees the signal unset recurses with its element appended and start i+1.
C14_NoSumPruning ==
    [][ pc = "searching" /\ ~stop_flag =>
          \A t \in tasks :
            /\ t.pc = "stopcheck" /\ t \notin tasks' =>
                 \A i \in t.start..Len(sorted_numbers) :
                    \E u \in tasks' : u.pc = "iter" /\ u.ix = t.ix /\ u.i = i
            /\ t.pc = "iter" /\ t \notin tasks' =>
                 \E u \in tasks' :
                    /\ u.pc = "entry"
                    /\ u.ix = Append(t.ix, t.i)
                    /\ u.path = Append(t.path, sorted_numbers[t.i])
                    /\ u.start = t.i + 1 ]_vars

\* C14 witness: a branch that the lower bound would have cut is running
C14_Witness ==
    /\ pc = "searching"
    /\ \E t \in tasks :
        /\ t.pc = "entry" /\ t.ix # <<>>
        /\ LowerBoundViolated(SubSeq(t.path, 1, Len(t.path) - 1), t.ix[Len(t.ix)])

\* what a search of these arguments returns when it explores them itself,
\* uncancelled: all accepted Paths, or a capful of them
OwnExploration(r, c) ==
    LET full == SequentialSearch(SortAsc(c.numbers), c.target, c.tolerance, <<>>, 1, 0)
    IN IF Len(full) < max_results
       THEN BagOfSeq(r) = BagOfSeq(full)
       ELSE Len(r) >= max_results /\ Range(r) \subseteq Range(full)

\* C15: a call made with the same numbers, target and tolerance as the search
\* before it, which was cancelled, and itself never cancelled, returns the
\* result of exploring its inputs, not the truncated set of the cancelled one.
C15_NoPartialFromCache ==
    [][ /\ Returned /\ ~hit /\ stop_flag
        /\ ncalls' = ncalls + 1
        /\ call'.numbers = call.numbers
        /\ call'.target = call.target
        /\ call'.tolerance = call.tolerance
        /\ ~call'.stop_at_call
        /\ pc' = "done"
        => OwnExploration(ret', call') ]_vars

\* C16: during a search the Result Set only grows at its end, also after the
\* signal is set, and the call returns exactly its final content.
C16_AppendOnly ==
    [][ pc = "searching" =>
          /\ IsPrefix(results, results')
          /\ pc' = "done" => ret' = results ]_vars

\* C16 witness: Paths appended before the signal was set are returned
C16_Witness ==
    /\ Returned /\ ~hit
    /\ stop_flag /\ ~call.stop_at_call
    /\ Len(ret) >= 2
    /\ ret = results

\* C17: after any sequence of get and put the cache holds at most capacity
\* entries with distinct keys, and they are exactly the most recently used
\* keys with the values last put: a put of a new key into a full cache has
\* evicted the least recently used key, a successful get and a put both count
\* as a use, and a put to an existing key replaces its value only.
C17_LruEviction ==
    /\ Len(cache) <= CACHE_CAPACITY
    /\ \A i, j \in DOMAIN cache : cache[i].key = cache[j].key => i = j
    /\ cache = SubSeq(used, 1, Min({CACHE_CAPACITY, Len(used)}))

\* C17 witness: a put into a full cache has evicted the key used least
\* recently, and a get has hit since
C17_Witness ==
    /\ Len(used) = CACHE_CAPACITY + 1
    /\ Len(cache) = CACHE_CAPACITY
    /\ CacheIndex(cache, used[Len(used)].key) = 0
    /\ hit /\ ret # <<>>

\* C18: numbers holding a NaN that the sort compares make the call fail with
\* an error value; the call never panics.
C18_NaNIsErrorValue ==
    pc # "panicked"

\* a search the app has launched whose Results have not been applied and
\* for which stop has not been pressed
InFlight(k) ==
    /\ gui.searches[k].state # "applied"
    /\ ~gui.searches[k].stopped

\* C19: while a launched search is in flight (its Results not applied, stop
\* not pressed) the app's computing flag is true after every update(), and
\* no second search is in flight beside it.
C19_OneInFlight ==
    /\ (\E k \in DOMAIN gui.searches : InFlight(k)) => gui.computing
    /\ Cardinality({ k \in DOMAIN gui.searches : InFlight(k) }) <= 1

\* C20: once stop_computation has run for a search and the cancel listener
\* has received its message, the cancellation signal of that search's engine
\* is set; the results of a stopped search are never written into the shared
\* state that update() displays; and until the next start_computation the app
\* shows computing = false with the stopped status.
C20_StopTakesEffect ==
    /\ \A k \in DOMAIN gui.searches :
          /\ gui.searches[k].unparked => gui.searches[k].stop_flag
          /\ ~gui.searches[k].applied_after_stop
    /\ gui.stopped => ~gui.computing /\ gui.status = <<"stopped">>


====
